---------------------------- MODULE Spec2Model ----------------------------
(***************************************************************************)
(* Model of the NeoMindzLive test backend (src/app.py, src/db.py).         *)
(*                                                                         *)
(* State: the three SQLite tables (test_sessions, test_answers,            *)
(* test_tokens) and the last HTTP response.  One action per endpoint       *)
(* (/api/test/start, /api/test/answer, /api/payment/unlock,                *)
(* /api/test/result); under Spec every handler runs to completion on its   *)
(* own connection before the next one starts.  Under SpecOverlap the       *)
(* /api/test/answer handler is two steps, its SELECT of the session row    *)
(* and its write transaction, and requests overlap between the two.        *)
(* Under SpecScorer compute_result is applied to answer histories built    *)
(* from bounded sets of stored values.                                     *)
(* Under SpecCatalog normalize_question and pick_question are applied to   *)
(* bounded raw items and banks, under SpecUnknown every answer names an id *)
(* outside the bank, and under SpecStartOverlap the /api/test/start        *)
(* handler is two steps, its SELECT and its INSERT.                        *)
(*                                                                         *)
(* Conventions                                                             *)
(*  - a nullable column is <<>> (NULL) or <<v>>;                           *)
(*  - a dynamically typed Python value of a raw bank item is a record      *)
(*    [kind, n]: kind "int" (n is the integer), "numstr" (a string int()   *)
(*    parses to n), "junk" (int() raises) or "none" (None); a list is      *)
(*    [kind |-> "list", items]; an absent or None category is "";          *)
(*  - the discrimination field of an item is never read and is left out;   *)
(*  - uuid4 ids are the position of the row in its table (fresh, unique);  *)
(*  - timestamps (started_at, finished_at, created_at, used_at) are not    *)
(*    modelled: started_at is only used to order a user's in-progress      *)
(*    sessions and the creation order of the rows stands for it;           *)
(*  - Python floats are modelled by exact rationals.                       *)
(***************************************************************************)
EXTENDS Bags, FiniteSets, Integers, Sequences, TLC

VARIABLES
    sessions,   \* test_sessions: sequence of rows, sessions[i] has id i
    answers,    \* test_answers: bag of rows (ids and created_at dropped)
    tokens,     \* test_tokens: sequence of rows, tokens[i] has id i
    resp,       \* the response of the last request
    inflight    \* the /api/test/answer requests that have read their session
                \* row and not yet written: bag of [user_id, payload, sess]

vars == <<sessions, answers, tokens, resp, inflight>>

-----------------------------------------------------------------------------
(* Bounds of the model *)

\* sessions ever created
MaxSessions == 2
\* recorded answers off the main line: all rows of test_answers but the
\* habitual answers of the session that has the most of them
MaxVaried == 1

-----------------------------------------------------------------------------
(* Python values *)

NULL == <<>>

IntV(n) == [kind |-> "int", n |-> n]
NumStr(n) == [kind |-> "numstr", n |-> n]
Junk == [kind |-> "junk", n |-> 0]
None == [kind |-> "none", n |-> 0]

\* app.py safe_int: int(v), default when int() raises
safe_int(v, default) ==
    IF v.kind \in {"int", "numstr"} THEN v.n ELSE default

\* dict.get(key, default) on a raw item
Get(q, key, default) == IF key \in DOMAIN q THEN q[key] ELSE default

\* a Python list value of a raw item, and isinstance(v, list)
ListV(items) == [kind |-> "list", items |-> items]
IsList(v) == v.kind = "list"

Min(a, b) == IF a <= b THEN a ELSE b
Max(a, b) == IF a >= b THEN a ELSE b
Abs(a) == IF a < 0 THEN -a ELSE a

-----------------------------------------------------------------------------
(* Question bank *)

Stages == {"adaptive", "classic", "speed"}

PlaceholderChoices == <<"A", "B", "C", "D">>

\* The bank loaded at import: one item in the generator dialect and one in
\* the old dialect that has neither difficulty nor category.
QUESTION_BANK ==
    << [id |-> "LS-000001", category |-> "logic_sequence",
        difficulty |-> IntV(3), prompt |-> "p1",
        options |-> ListV(<<"7", "8", "9", "10">>), correct_index |-> IntV(1),
        time_limit_sec |-> IntV(35)],
       [id |-> "OLD-1", prompt |-> "p2",
        choices |-> ListV(<<"x", "y">>), answer_index |-> IntV(1)] >>

BankIds == {QUESTION_BANK[i].id : i \in DOMAIN QUESTION_BANK}

\* QUESTION_BY_ID.get(qid): <<>> when absent (a later item with the same id
\* replaces an earlier one in the dict comprehension)
QUESTION_BY_ID(qid) ==
    LET idx == {i \in DOMAIN QUESTION_BANK : QUESTION_BANK[i].id = qid}
    IN  IF idx = {} THEN <<>>
        ELSE <<QUESTION_BANK[CHOOSE i \in idx : \A j \in idx : j <= i]>>

normalize_question(raw, stage, fallback_level) ==
    LET c1 == Get(raw, "choices", None)
        c2 == IF ~IsList(c1) THEN Get(raw, "options", None) ELSE c1
        choices == IF ~IsList(c2) \/ Len(c2.items) < 2
                   THEN PlaceholderChoices ELSE c2.items
        ans0 == Get(raw, "answer_index", None)
        ans == IF ans0.kind = "none" THEN Get(raw, "correct_index", None) ELSE ans0
        tl == IF stage = "speed" THEN 20 ELSE 45
    IN  [id |-> raw.id,
         prompt |-> Get(raw, "prompt", ""),
         choices |-> choices,
         answer_index |-> safe_int(ans, 0),
         difficulty |-> safe_int(Get(raw, "difficulty", IntV(fallback_level)), fallback_level),
         time_limit_sec |-> safe_int(Get(raw, "time_limit_sec", IntV(tl)), tl),
         stage |-> stage,
         section |-> Get(raw, "section", stage),
         category |-> Get(raw, "category", "")]

\* the four random digits of a demo id
DemoSuffixes == {"1000", "9999"}

StageUpper(stage) ==
    CASE stage = "adaptive" -> "ADAPTIVE"
      [] stage = "classic" -> "CLASSIC"
      [] OTHER -> "SPEED"

\* demo_question with the ability level as difficulty in every stage
demo_question_level(stage, adaptive_level, suffix) ==
    [id |-> "DEMO-" \o StageUpper(stage) \o "-" \o ToString(adaptive_level) \o "-" \o suffix,
     prompt |-> "Demo question",
     choices |-> PlaceholderChoices,
     answer_index |-> 0,
     difficulty |-> adaptive_level,
     time_limit_sec |-> IF stage = "speed" THEN 25 ELSE 60,
     stage |-> stage,
     section |-> stage,
     category |-> "demo"]

demo_question(stage, adaptive_level, suffix) ==
    [id |-> "DEMO-" \o StageUpper(stage) \o "-" \o ToString(adaptive_level) \o "-" \o suffix,
     prompt |-> "Demo question",
     choices |-> PlaceholderChoices,
     answer_index |-> 0,
     difficulty |-> IF stage = "adaptive" THEN adaptive_level ELSE 2,
     time_limit_sec |-> IF stage = "speed" THEN 25 ELSE 60,
     stage |-> stage,
     section |-> stage,
     category |-> "demo"]

CLASSIC_CATS == {"logic_sequence", "arithmetic_reasoning", "algebra_basic",
                 "percent_ratio", "pattern_odd_one_out", "verbal_analogy_simple"}
SPEED_CATS == {"arithmetic_reasoning", "percent_ratio",
               "pattern_odd_one_out", "verbal_analogy_simple"}

\* the filter of pick_question on one raw item
Eligible(q, stage, adaptive_level) ==
    LET diff == safe_int(Get(q, "difficulty", IntV(2)), 2)
        cat == Get(q, "category", "")
    IN  CASE stage = "adaptive" -> Abs(diff - adaptive_level) <= 1
          [] stage = "classic" -> (cat \in CLASSIC_CATS \/ cat = "") /\ 2 <= diff /\ diff <= 4
          [] OTHER -> (cat \in SPEED_CATS \/ cat = "") /\ 1 <= diff /\ diff <= 3

\* the body of pick_question on a bank: the set of items random.choice /
\* random.randint can yield
pick_from(bank, stage, adaptive_level) ==
    IF Len(bank) = 0
    THEN {demo_question(stage, adaptive_level, sfx) : sfx \in DemoSuffixes}
    ELSE LET cand == {i \in DOMAIN bank : Eligible(bank[i], stage, adaptive_level)}
             pool == IF cand = {} THEN DOMAIN bank ELSE cand
         IN  {normalize_question(bank[i], stage,
                                 IF stage = "adaptive" THEN adaptive_level ELSE 2)
                 : i \in pool}

\* pick_question reads the module-level QUESTION_BANK
pick_question(stage, adaptive_level) ==
    pick_from(QUESTION_BANK, stage, adaptive_level)

get_question_by_id_or_fallback(qid, stage, adaptive_level) ==
    LET raw == QUESTION_BY_ID(qid)
    IN  IF raw # <<>>
        THEN {normalize_question(raw[1], stage, adaptive_level)}
        ELSE {demo_question(stage, adaptive_level, sfx) : sfx \in DemoSuffixes}

\* stage_limits with the classic stage one item short
stage_limits_short(stage) ==
    CASE stage = "adaptive" -> 12
      [] stage = "classic" -> 17
      [] OTHER -> 20

stage_limits(stage) ==
    CASE stage = "adaptive" -> 12
      [] stage = "classic" -> 18
      [] OTHER -> 20

-----------------------------------------------------------------------------
(* Scorer.  Points are counted in units of 1/300, which makes the weight   *)
(* 1.0 + (diff-1)*0.15 and the time bonus integers.                        *)

\* sum of the values of a function with a finite domain
RECURSIVE SumFn(_)
SumFn(F) ==
    IF DOMAIN F = {} THEN 0
    ELSE LET r == CHOOSE x \in DOMAIN F : TRUE
         IN  F[r] + SumFn([y \in DOMAIN F \ {r} |-> F[y]])

\* the SELECT without its WHERE clause
RowsOf_all(tbl, session_id) == tbl

\* SELECT ... FROM test_answers WHERE session_id=?
RowsOf(tbl, session_id) ==
    LET keep == {r \in DOMAIN tbl : r.session_id = session_id}
    IN  [r \in keep |-> tbl[r]]

\* the weight with 0.10 per difficulty step
Weight_tenth(diff) == 300 + (diff - 1) * 30

\* w = 1.0 + (diff - 1) * 0.15
Weight(diff) == 300 + (diff - 1) * 45

\* bonus = max(0.0, (30 - min(30, t)) / 30) * 0.2
Bonus(t) == Max(0, 30 - Min(30, t)) * 2

\* max_pts[stage] after the loop over the rows (a bag: each row counts
\* with its copies)
max_pts(rows, stage) ==
    SumFn([r \in DOMAIN rows |->
              rows[r] * (IF r.stage = stage THEN Weight(r.difficulty) ELSE 0)])

\* pts[stage] after the loop over the rows
pts(rows, stage) ==
    SumFn([r \in DOMAIN rows |->
              rows[r] * (IF r.stage = stage /\ r.is_correct = 1
                         THEN Weight(r.difficulty)
                              + (IF stage = "speed" THEN Bonus(r.time_spent_sec) ELSE 0)
                         ELSE 0)])

\* norm(s) as a fraction <<numerator, denominator>>, denominator > 0
norm(rows, s) ==
    LET m == max_pts(rows, s)
        p == pts(rows, s)
    IN  IF m <= 0 THEN <<0, 1>>
        ELSE IF p >= m THEN <<1, 1>> ELSE <<p, m>>

\* a/b compared with c/d (b, d > 0; a, c >= 0) without forming a*d: -1, 0, 1
RECURSIVE CmpFrac(_, _, _, _)
CmpFrac(a, b, c, d) ==
    LET qa == a \div b
        qc == c \div d
        ra == a % b
        rc == c % d
    IN  IF qa < qc THEN -1
        ELSE IF qa > qc THEN 1
        ELSE IF ra = 0 /\ rc = 0 THEN 0
        ELSE IF ra = 0 THEN -1
        ELSE IF rc = 0 THEN 1
        ELSE CmpFrac(d, rc, b, ra)

\* x + y/z compared with (2k+1)/2, for fractions x = n/d in [0,2), y/z in [0,1)
CmpHalf(n, d, y, z, k) ==
    LET num == (2 * k + 1) * d - 2 * n
    IN  IF num < 0 THEN 1
        ELSE CmpFrac(y, z, num, 2 * d)

\* Python round(): to the nearest integer, ties to the even one, of
\* base + f1 + f2 + f3 with each fi = <<ri, di>> in [0,1)
RoundHalfEven(base, f1, f2, f3) ==
    LET n == f1[1] * f2[2] + f2[1] * f1[2]
        d == f1[2] * f2[2]
        c(k) == CmpHalf(n, d, f3[1], f3[2], k)
        up(k) == c(k) = 1 \/ (c(k) = 0 /\ (base + k) % 2 = 1)
    IN  IF up(2) THEN base + 3
        ELSE IF up(1) THEN base + 2
        ELSE IF up(0) THEN base + 1
        ELSE base

\* coef * fr split into integer part and fraction in [0,1)
Split(coef, fr) ==
    [int |-> (coef * fr[1]) \div fr[2],
     frac |-> <<(coef * fr[1]) % fr[2], fr[2]>>]

\* iq = round(70 + final_norm * 60) with
\* final_norm = norm(adaptive)*0.35 + norm(classic)*0.45 + norm(speed)*0.20
Iq(rows) ==
    LET a == Split(21, norm(rows, "adaptive"))
        c == Split(27, norm(rows, "classic"))
        s == Split(12, norm(rows, "speed"))
    IN  RoundHalfEven(70 + a.int + c.int + s.int, a.frac, c.frac, s.frac)

\* the step function with < for <=
Percentile_strict(iq) ==
    IF iq < 70 THEN 2
    ELSE IF iq < 85 THEN 16
    ELSE IF iq < 100 THEN 50
    ELSE IF iq < 110 THEN 75
    ELSE IF iq < 115 THEN 84
    ELSE IF iq < 120 THEN 91
    ELSE IF iq < 125 THEN 95
    ELSE 98

Percentile(iq) ==
    IF iq <= 70 THEN 2
    ELSE IF iq <= 85 THEN 16
    ELSE IF iq <= 100 THEN 50
    ELSE IF iq <= 110 THEN 75
    ELSE IF iq <= 115 THEN 84
    ELSE IF iq <= 120 THEN 91
    ELSE IF iq <= 125 THEN 95
    ELSE 98

\* round(final_norm, 4), in units of 1/10000 (a float that lies within
\* rounding error of a tie may go the other way than the exact value)
FinalNorm(rows) ==
    LET a == Split(3500, norm(rows, "adaptive"))
        c == Split(4500, norm(rows, "classic"))
        s == Split(2000, norm(rows, "speed"))
    IN  RoundHalfEven(a.int + c.int + s.int, a.frac, c.frac, s.frac)

compute_result(tbl, session_id) ==
    LET rows == RowsOf(tbl, session_id)
        iq == Iq(rows)
    IN  [iq |-> iq, percentile |-> Percentile(iq), final_norm |-> FinalNorm(rows)]

-----------------------------------------------------------------------------
(* Requests *)

\* values of the X-User-Id header (requests without one are answered 400 by
\* ensure_user_id before any handler code runs and are not modelled)
Users == {"u1", "u2"}

\* session ids a request can name (ids above Len(sessions) match no row)
SessionIds == 1..(MaxSessions + 1)

\* a question id that is not in the bank
UnknownId == "DEMO-ADAPTIVE-2-1000"

Submission(question_id, chosen_index, time_spent_sec) ==
    [question_id |-> question_id, chosen_index |-> chosen_index,
     time_spent_sec |-> time_spent_sec]

\* what a client submits: choice 0 after 10 seconds for an id that is not in
\* the bank (graded as a demo item: right), or choice 0 after 15 seconds for
\* the bank item that has no difficulty (its answer_index is 1: wrong)
Submissions ==
    {Submission(UnknownId, 0, 10), Submission("OLD-1", 0, 15)}

TxnRefs == {"", "TXN-1"}

\* the habitual submission of a user: u1 answers right, u2 wrong
Habit(user_id) ==
    IF user_id = "u1" THEN Submission(UnknownId, 0, 10)
                      ELSE Submission("OLD-1", 0, 15)

\* a recorded answer that is the habitual submission of the session's user
Habitual(r) ==
    Submission(r.question_id, r.chosen_index, r.time_spent_sec)
        = Habit(sessions[r.session_id].user_id)

\* the rows off the main line
VariedCount(tbl) ==
    LET n(id) == SumFn([r \in DOMAIN tbl |->
                           IF r.session_id = id /\ Habitual(r) THEN tbl[r] ELSE 0])
        most == CHOOSE m \in {n(i) : i \in DOMAIN sessions} :
                    \A i \in DOMAIN sessions : n(i) <= m
    IN  BagCardinality(tbl) - most

\* what the client gets from raise HTTPException(code, detail)
HTTPException(code, detail) == [code |-> code, detail |-> detail]

\* View with the answer key left in
View_keyed(q, stage) ==
    [id |-> q.id, prompt |-> q.prompt, choices |-> q.choices,
     time_limit_sec |-> q.time_limit_sec, stage |-> stage,
     difficulty |-> q.difficulty, answer_index |-> q.answer_index]

\* the question dict of StartResponse and of the answer response
View(q, stage) ==
    [id |-> q.id, prompt |-> q.prompt, choices |-> q.choices,
     time_limit_sec |-> q.time_limit_sec, stage |-> stage,
     difficulty |-> q.difficulty]

\* SelectSession without the user_id condition
SelectSession_anyuser(session_id, user_id) ==
    IF session_id \in DOMAIN sessions
    THEN <<sessions[session_id]>> ELSE <<>>

\* SELECT * FROM test_sessions WHERE id=? AND user_id=?  (<<>> when no row)
SelectSession(session_id, user_id) ==
    IF session_id \in DOMAIN sessions /\ sessions[session_id].user_id = user_id
    THEN <<sessions[session_id]>> ELSE <<>>

\* SelectInProgress that finds no row
SelectInProgress_none(user_id) == {}

\* SELECT * FROM test_sessions WHERE user_id=? AND status='in_progress'
\* ORDER BY started_at DESC LIMIT 1  (the ids of the rows it can return)
SelectInProgress(user_id) ==
    LET mine == {i \in DOMAIN sessions :
                    sessions[i].user_id = user_id /\ sessions[i].status = "in_progress"}
    IN  {i \in mine : \A j \in mine : j <= i}

Init ==
    /\ sessions = <<>>
    /\ answers = EmptyBag
    /\ tokens = <<>>
    /\ resp = [code |-> 0]
    /\ inflight = EmptyBag

\* POST /api/test/start
test_start(user_id) ==
    IF SelectInProgress(user_id) # {}
    THEN \E id \in SelectInProgress(user_id) :
            LET sess == sessions[id] IN
            \E q \in pick_question(sess.stage, sess.adaptive_level) :
                /\ resp' = [code |-> 200, session_id |-> id,
                            stage |-> sess.stage, stage_index |-> sess.stage_index,
                            question_index |-> sess.question_index,
                            question |-> View(q, sess.stage)]
                /\ UNCHANGED <<sessions, answers, tokens>>
    ELSE /\ Len(sessions) < MaxSessions
         /\ sessions' = Append(sessions,
                [user_id |-> user_id, status |-> "in_progress",
                 stage |-> "adaptive", stage_index |-> 1, question_index |-> 1,
                 adaptive_level |-> 2, final_iq |-> NULL, percentile |-> NULL,
                 result_locked |-> 1, unlock_token_id |-> NULL])
         /\ \E q \in pick_question("adaptive", 2) :
                resp' = [code |-> 200,
                         session_id |-> Len(sessions) + 1,
                         stage |-> "adaptive", stage_index |-> 1,
                         question_index |-> 1, question |-> View(q, "adaptive")]
         /\ UNCHANGED <<answers, tokens>>

\* AdaptiveUpdate without the lower clamp
AdaptiveUpdate_unclamped(stage, adaptive_level, is_correct) ==
    IF stage = "adaptive"
    THEN IF is_correct = 1 THEN Min(5, adaptive_level + 1)
                           ELSE adaptive_level - 1
    ELSE adaptive_level

\* AdaptiveUpdate that does not look at the stage
AdaptiveUpdate_allstages(stage, adaptive_level, is_correct) ==
    IF is_correct = 1 THEN Min(5, adaptive_level + 1)
                      ELSE Max(1, adaptive_level - 1)

\* the adaptive update of test_answer (lines 495-496)
AdaptiveUpdate(stage, adaptive_level, is_correct) ==
    IF stage = "adaptive"
    THEN IF is_correct = 1 THEN Min(5, adaptive_level + 1)
                           ELSE Max(1, adaptive_level - 1)
    ELSE adaptive_level

\* INSERT INTO test_answers
InsertAnswer(tbl, row) == tbl (+) SetToBag({row})

\* Advance that compares with >= limit + 2, storing an index above the limit
Advance_late(sess, q_index, adaptive_level) ==
    IF q_index > stage_limits(sess.stage) + 1
    THEN IF sess.stage = "adaptive"
         THEN [sess EXCEPT !.stage = "classic", !.stage_index = 2,
                           !.question_index = 1, !.adaptive_level = adaptive_level]
         ELSE [sess EXCEPT !.stage = "speed", !.stage_index = 3,
                           !.question_index = 1, !.adaptive_level = adaptive_level]
    ELSE [sess EXCEPT !.question_index = q_index, !.adaptive_level = adaptive_level]

\* Advance that forgets to reset question_index on a stage change
Advance_noreset(sess, q_index, adaptive_level) ==
    IF q_index > stage_limits(sess.stage)
    THEN IF sess.stage = "adaptive"
         THEN [sess EXCEPT !.stage = "classic", !.stage_index = 2,
                           !.question_index = q_index, !.adaptive_level = adaptive_level]
         ELSE [sess EXCEPT !.stage = "speed", !.stage_index = 3,
                           !.question_index = q_index, !.adaptive_level = adaptive_level]
    ELSE [sess EXCEPT !.question_index = q_index, !.adaptive_level = adaptive_level]

\* Advance that leaves stage_index behind when entering the speed stage
Advance_staleindex(sess, q_index, adaptive_level) ==
    IF q_index > stage_limits(sess.stage)
    THEN IF sess.stage = "adaptive"
         THEN [sess EXCEPT !.stage = "classic", !.stage_index = 2,
                           !.question_index = 1, !.adaptive_level = adaptive_level]
         ELSE [sess EXCEPT !.stage = "speed",
                           !.question_index = 1, !.adaptive_level = adaptive_level]
    ELSE [sess EXCEPT !.question_index = q_index, !.adaptive_level = adaptive_level]

\* the session row after the UPDATE of test_answer that keeps the session
\* in progress (lines 498-553); q_index is the incremented question_index
Advance(sess, q_index, adaptive_level) ==
    IF q_index > stage_limits(sess.stage)
    THEN IF sess.stage = "adaptive"
         THEN [sess EXCEPT !.stage = "classic", !.stage_index = 2,
                           !.question_index = 1, !.adaptive_level = adaptive_level]
         ELSE [sess EXCEPT !.stage = "speed", !.stage_index = 3,
                           !.question_index = 1, !.adaptive_level = adaptive_level]
    ELSE [sess EXCEPT !.question_index = q_index, !.adaptive_level = adaptive_level]

\* Finish that leaves the result unlocked
Finish_unlocked(sess, tbl, session_id) ==
    LET result == compute_result(tbl, session_id)
    IN  [sess EXCEPT !.status = "completed", !.final_iq = <<result.iq>>,
                     !.percentile = <<result.percentile>>,
                     !.result_locked = 0, !.unlock_token_id = NULL]

\* Finish that scores the table as it was before this request's INSERT
Finish_stale(sess, tbl, session_id) ==
    LET result == compute_result(answers, session_id)
    IN  [sess EXCEPT !.status = "completed", !.final_iq = <<result.iq>>,
                     !.percentile = <<result.percentile>>,
                     !.result_locked = 1, !.unlock_token_id = NULL]

\* the session row after the UPDATE that finishes the test (lines 513-526);
\* tbl is test_answers as the handler's connection sees it
Finish(sess, tbl, session_id) ==
    LET result == compute_result(tbl, session_id)
    IN  [sess EXCEPT !.status = "completed", !.final_iq = <<result.iq>>,
                     !.percentile = <<result.percentile>>,
                     !.result_locked = 1, !.unlock_token_id = NULL]

\* the lifecycle check left out
InProgress_always(sess) == TRUE

\* the lifecycle check of test_answer (line 461)
InProgress(sess) == sess.status = "in_progress"

\* POST /api/test/answer
test_answer(user_id, payload) ==
    IF SelectSession(payload.session_id, user_id) = <<>>
    THEN /\ resp' = HTTPException(404, "Session not found.")
         /\ UNCHANGED <<sessions, answers, tokens>>
    ELSE IF ~InProgress(SelectSession(payload.session_id, user_id)[1])
    THEN /\ resp' = HTTPException(400, "Session already completed.")
         /\ UNCHANGED <<sessions, answers, tokens>>
    ELSE
      LET sess == SelectSession(payload.session_id, user_id)[1]
          stage == sess.stage
          adaptive_level == sess.adaptive_level
      IN
      \E q \in get_question_by_id_or_fallback(payload.question_id, stage, adaptive_level) :
        LET correct_index == q.answer_index
            difficulty == q.difficulty
            is_correct == IF payload.chosen_index = correct_index THEN 1 ELSE 0
            row == [session_id |-> payload.session_id,
                    question_id |-> payload.question_id,
                    chosen_index |-> payload.chosen_index,
                    is_correct |-> is_correct,
                    stage |-> stage,
                    difficulty |-> difficulty,
                    time_spent_sec |-> payload.time_spent_sec]
            tbl == InsertAnswer(answers, row)
            new_level == AdaptiveUpdate(stage, adaptive_level, is_correct)
            q_index == sess.question_index + 1
            finished == q_index > stage_limits(stage) /\ stage \notin {"adaptive", "classic"}
            new_sess == IF finished THEN Finish(sess, tbl, payload.session_id)
                        ELSE Advance(sess, q_index, new_level)
        IN
        /\ VariedCount(tbl) <= MaxVaried
        /\ answers' = tbl
        /\ sessions' = [sessions EXCEPT ![payload.session_id] = new_sess]
        /\ UNCHANGED tokens
        /\ IF finished
           THEN resp' = [code |-> 200, finished |-> TRUE,
                         result_locked |-> TRUE, session_id |-> payload.session_id]
           ELSE \E next_q \in pick_question(new_sess.stage, new_level) :
                  resp' = [code |-> 200, finished |-> FALSE,
                           stage |-> new_sess.stage,
                           stage_index |-> new_sess.stage_index,
                           question_index |-> new_sess.question_index,
                           question |-> View(next_q, new_sess.stage)]

\* create_token followed by mark_token_used
create_token(tbl, user_id, paddle_txn_id) ==
    Append(tbl, [user_id |-> user_id, status |-> "unused",
                 paddle_txn_id |-> paddle_txn_id])

mark_token_used(tbl, token_id) == [tbl EXCEPT ![token_id].status = "used"]

\* the "already unlocked?" check left out
AlreadyUnlocked_never(sess) == FALSE

\* the "already unlocked?" check of unlock_result (line 601)
AlreadyUnlocked(sess) == sess.result_locked = 0

\* unlock_result without the payment check (lines 585-586 left out)
unlock_result_unpaid(user_id, payload) ==
    IF SelectSession(payload.session_id, user_id) = <<>>
    THEN /\ resp' = HTTPException(404, "Session not found.")
         /\ UNCHANGED <<sessions, answers, tokens>>
    ELSE IF SelectSession(payload.session_id, user_id)[1].status # "completed"
    THEN /\ resp' = HTTPException(400, "Session is not completed yet.")
         /\ UNCHANGED <<sessions, answers, tokens>>
    ELSE IF AlreadyUnlocked(SelectSession(payload.session_id, user_id)[1])
    THEN /\ resp' = [code |-> 200, ok |-> TRUE,
                     session_id |-> payload.session_id, already_unlocked |-> TRUE]
         /\ UNCHANGED <<sessions, answers, tokens>>
    ELSE
      LET txn == IF payload.paddle_txn_id = "" THEN "MANUAL" ELSE payload.paddle_txn_id
          created == create_token(tokens, user_id, txn)
          token_id == Len(created)
      IN
      /\ tokens' = mark_token_used(created, token_id)
      /\ sessions' = [sessions EXCEPT ![payload.session_id].result_locked = 0,
                                      ![payload.session_id].unlock_token_id = <<token_id>>]
      /\ resp' = [code |-> 200, ok |-> TRUE,
                  session_id |-> payload.session_id, unlock_token_id |-> token_id]
      /\ UNCHANGED answers

\* POST /api/payment/unlock
unlock_result(user_id, payload) ==
    IF ~payload.paid
    THEN /\ resp' = HTTPException(402, "Payment required.")
         /\ UNCHANGED <<sessions, answers, tokens>>
    ELSE IF SelectSession(payload.session_id, user_id) = <<>>
    THEN /\ resp' = HTTPException(404, "Session not found.")
         /\ UNCHANGED <<sessions, answers, tokens>>
    ELSE IF SelectSession(payload.session_id, user_id)[1].status # "completed"
    THEN /\ resp' = HTTPException(400, "Session is not completed yet.")
         /\ UNCHANGED <<sessions, answers, tokens>>
    ELSE IF AlreadyUnlocked(SelectSession(payload.session_id, user_id)[1])
    THEN /\ resp' = [code |-> 200, ok |-> TRUE,
                     session_id |-> payload.session_id, already_unlocked |-> TRUE]
         /\ UNCHANGED <<sessions, answers, tokens>>
    ELSE
      LET txn == IF payload.paddle_txn_id = "" THEN "MANUAL" ELSE payload.paddle_txn_id
          created == create_token(tokens, user_id, txn)
          token_id == Len(created)
      IN
      /\ tokens' = mark_token_used(created, token_id)
      /\ sessions' = [sessions EXCEPT ![payload.session_id].result_locked = 0,
                                      ![payload.session_id].unlock_token_id = <<token_id>>]
      /\ resp' = [code |-> 200, ok |-> TRUE,
                  session_id |-> payload.session_id, unlock_token_id |-> token_id]
      /\ UNCHANGED answers

\* get_result without the result_locked check
get_result_nolock(user_id, session_id) ==
    /\ UNCHANGED <<sessions, answers, tokens>>
    /\ IF SelectSession(session_id, user_id) = <<>>
       THEN resp' = HTTPException(404, "Session not found.")
       ELSE IF SelectSession(session_id, user_id)[1].status # "completed"
       THEN resp' = HTTPException(400, "Session is not completed yet.")
       ELSE resp' = [code |-> 200, session_id |-> session_id,
                     unlocked |-> TRUE,
                     iq |-> SelectSession(session_id, user_id)[1].final_iq,
                     percentile |-> SelectSession(session_id, user_id)[1].percentile]

\* GET /api/test/result
get_result(user_id, session_id) ==
    /\ UNCHANGED <<sessions, answers, tokens>>
    /\ IF SelectSession(session_id, user_id) = <<>>
       THEN resp' = HTTPException(404, "Session not found.")
       ELSE IF SelectSession(session_id, user_id)[1].status # "completed"
       THEN resp' = HTTPException(400, "Session is not completed yet.")
       ELSE IF SelectSession(session_id, user_id)[1].result_locked = 1
       THEN resp' = HTTPException(402, "Payment required. Result is locked.")
       ELSE resp' = [code |-> 200, session_id |-> session_id,
                     unlocked |-> TRUE,
                     iq |-> SelectSession(session_id, user_id)[1].final_iq,
                     percentile |-> SelectSession(session_id, user_id)[1].percentile]

AnswerPayloads ==
    {[session_id |-> id, question_id |-> sub.question_id,
      chosen_index |-> sub.chosen_index, time_spent_sec |-> sub.time_spent_sec]
        : id \in SessionIds, sub \in Submissions}

UnlockPayloads ==
    [session_id : SessionIds, paid : BOOLEAN, paddle_txn_id : TxnRefs]

Start == \E u \in Users : test_start(u) /\ UNCHANGED inflight
Answer == \E u \in Users, p \in AnswerPayloads : test_answer(u, p) /\ UNCHANGED inflight
Unlock == \E u \in Users, p \in UnlockPayloads : unlock_result(u, p) /\ UNCHANGED inflight
GetResult == \E u \in Users, id \in SessionIds : get_result(u, id) /\ UNCHANGED inflight

Next == Start \/ Answer \/ Unlock \/ GetResult

Spec == Init /\ [][Next]_vars

-----------------------------------------------------------------------------
(* Overlapping /api/test/answer requests *)

\* FastAPI runs the handlers (plain def) on a thread pool and get_db gives
\* each request a connection of its own; nothing orders two requests.  The
\* SELECT of the session row runs outside any transaction; the INSERT opens
\* the write transaction (sqlite3 begins one before the first INSERT/UPDATE),
\* which SQLite serialises against other writers, and commit ends it.  So a
\* request is two steps, the read and the write transaction, and the writes
\* of other requests may fall between them.

\* sessions ever created while requests overlap
MaxOverlapSessions == 1
\* requests between their read and their write
MaxInFlight == 2
\* answers a session may hold beyond those a writer's snapshot accounts for:
\* the schedules explored are those in which every request finds at most
\* Pos - 1 + MaxExtra answers of its session when it writes
MaxExtra == 1

\* the position of a session row in the test: 1..50
Pos(sess) ==
    (CASE sess.stage = "adaptive" -> 0
       [] sess.stage = "classic"  -> stage_limits("adaptive")
       [] OTHER -> stage_limits("adaptive") + stage_limits("classic"))
    + sess.question_index

\* a request that has read the row sess writes within the bound when its
\* session holds n answers
Within(sess, n) == n <= Pos(sess) - 1 + MaxExtra

\* the requests of bag B for the session
For(B, session_id) ==
    LET keep == {r \in DOMAIN B : r.payload.session_id = session_id}
    IN  [r \in keep |-> B[r]]

\* test_answer up to the checks of the fetched session row (lines 453-462)
answer_read(user_id, payload) ==
    IF SelectSession(payload.session_id, user_id) = <<>>
    THEN /\ resp' = HTTPException(404, "Session not found.")
         /\ UNCHANGED <<sessions, answers, tokens, inflight>>
    ELSE IF ~InProgress(SelectSession(payload.session_id, user_id)[1])
    THEN /\ resp' = HTTPException(400, "Session already completed.")
         /\ UNCHANGED <<sessions, answers, tokens, inflight>>
    ELSE /\ BagCardinality(inflight) < MaxInFlight
         /\ Within(SelectSession(payload.session_id, user_id)[1],
                   BagCardinality(RowsOf(answers, payload.session_id))
                   + BagCardinality(For(inflight, payload.session_id)))
         /\ inflight' = inflight (+) SetToBag({
                [user_id |-> user_id, payload |-> payload,
                 sess |-> SelectSession(payload.session_id, user_id)[1]]})
         /\ UNCHANGED <<sessions, answers, tokens, resp>>

\* the UPDATE of test_answer applied to the row as it is now, with the values
\* computed from the row sess the request has read: the SET lists of lines
\* 515-521, 537-539 and 546-548
WriteBack(row, sess, q_index, adaptive_level, tbl, session_id) ==
    LET a == Advance(sess, q_index, adaptive_level)
        f == Finish(sess, tbl, session_id)
    IN  IF q_index <= stage_limits(sess.stage)
        THEN [row EXCEPT !.question_index = a.question_index,
                         !.adaptive_level = a.adaptive_level]
        ELSE IF sess.stage \in {"adaptive", "classic"}
        THEN [row EXCEPT !.stage = a.stage, !.stage_index = a.stage_index,
                         !.question_index = a.question_index,
                         !.adaptive_level = a.adaptive_level]
        ELSE [row EXCEPT !.status = f.status, !.final_iq = f.final_iq,
                         !.percentile = f.percentile,
                         !.result_locked = f.result_locked,
                         !.unlock_token_id = f.unlock_token_id]

\* test_answer from the grading to the response (lines 464-575), for a
\* request that has read the session row req.sess
answer_write(req) ==
    LET payload == req.payload
        sess == req.sess
        stage == sess.stage
        adaptive_level == sess.adaptive_level
    IN
    \E q \in get_question_by_id_or_fallback(payload.question_id, stage, adaptive_level) :
      LET is_correct == IF payload.chosen_index = q.answer_index THEN 1 ELSE 0
          row == [session_id |-> payload.session_id,
                  question_id |-> payload.question_id,
                  chosen_index |-> payload.chosen_index,
                  is_correct |-> is_correct,
                  stage |-> stage,
                  difficulty |-> q.difficulty,
                  time_spent_sec |-> payload.time_spent_sec]
          tbl == InsertAnswer(answers, row)
          new_level == AdaptiveUpdate(stage, adaptive_level, is_correct)
          q_index == sess.question_index + 1
          finished == q_index > stage_limits(stage) /\ stage \notin {"adaptive", "classic"}
          local == Advance(sess, q_index, new_level)
          new_row == WriteBack(sessions[payload.session_id], sess, q_index,
                               new_level, tbl, payload.session_id)
      IN
      /\ Within(sess, BagCardinality(RowsOf(answers, payload.session_id)))
      /\ \A other \in DOMAIN For(inflight (-) SetToBag({req}), payload.session_id) :
            Within(other.sess, BagCardinality(RowsOf(tbl, payload.session_id)))
      /\ VariedCount(tbl) <= MaxVaried
      /\ inflight' = inflight (-) SetToBag({req})
      /\ answers' = tbl
      /\ sessions' = [sessions EXCEPT ![payload.session_id] = new_row]
      /\ UNCHANGED tokens
      /\ IF finished
         THEN resp' = [code |-> 200, finished |-> TRUE,
                       result_locked |-> TRUE, session_id |-> payload.session_id]
         ELSE \E next_q \in pick_question(local.stage, new_level) :
                resp' = [code |-> 200, finished |-> FALSE,
                         stage |-> local.stage,
                         stage_index |-> new_row.stage_index,
                         question_index |-> local.question_index,
                         question |-> View(next_q, local.stage)]

StartOverlap ==
    \E u \in Users :
        /\ SelectInProgress(u) # {} \/ Len(sessions) < MaxOverlapSessions
        /\ test_start(u)
        /\ UNCHANGED inflight
AnswerRead ==
    \E u \in Users, p \in AnswerPayloads : answer_read(u, p)
AnswerWrite ==
    \E req \in BagToSet(inflight) : answer_write(req)

NextOverlap == StartOverlap \/ AnswerRead \/ AnswerWrite \/ Unlock \/ GetResult

SpecOverlap == Init /\ [][NextOverlap]_vars

-----------------------------------------------------------------------------
(* The Scorer on answer histories *)

\* rows of test_answers over all sessions
MaxHistory == 3

\* stored difficulties: normalize_question stores any integer the bank
\* gives (below the range 1..5, its ends)
Difficulties == {-8, 1, 5}
\* stored time_spent_sec: AnswerRequest accepts any integer
Times == {-30, 10, 40}

\* a row of session 1 as test_answer stores it
HistoryRow(is_correct, stage, difficulty, time_spent_sec) ==
    [session_id |-> 1, question_id |-> "LS-000001", chosen_index |-> 1,
     is_correct |-> is_correct, stage |-> stage, difficulty |-> difficulty,
     time_spent_sec |-> time_spent_sec]

\* the rows test_answer can insert for session 1: any stage, correctness and
\* difficulty after 10 seconds, and right speed answers after any time
HistoryRows ==
    {HistoryRow(ok, st, d, 10) :
        ok \in {0, 1}, st \in Stages, d \in Difficulties}
    \cup {HistoryRow(1, "speed", d, t) : d \in Difficulties, t \in Times}

\* rows of a second session, for other items and another choice
OtherRows ==
    {[session_id |-> 2, question_id |-> "OLD-1", chosen_index |-> 0,
      is_correct |-> ok, stage |-> st, difficulty |-> 5, time_spent_sec |-> 10]
        : ok \in {0, 1}, st \in Stages}

\* the INSERT of test_answer (lines 474-492) with the values given
record_answer(row) ==
    /\ BagCardinality(answers) < MaxHistory
    /\ answers' = InsertAnswer(answers, row)
    /\ resp' = [code |-> 0]
    /\ UNCHANGED <<sessions, tokens, inflight>>

\* compute_result(con, session_id) on the table as it is
score(session_id) ==
    /\ resp' = [code |-> 200, session_id |-> session_id,
                result |-> compute_result(answers, session_id)]
    /\ UNCHANGED <<sessions, answers, tokens, inflight>>

Record == \E row \in HistoryRows \cup OtherRows : record_answer(row)
Score == \E id \in {1, 2} : score(id)

NextScorer == Record \/ Score

SpecScorer == Init /\ [][NextScorer]_vars

-----------------------------------------------------------------------------
(* The Catalog and the Selector on raw items.  Under SpecCatalog a call of *)
(* normalize_question or of pick_question is drawn with its arguments (and  *)
(* for pick_question with the bank loaded at import) and then returns.      *)

MaxBank == 2

\* a key that the raw item does not hold
Absent == [kind |-> "absent", n |-> 0]

\* a raw item of the bank file: a dict with the keys that are present
RawItem(id, choices, options, answer_index, correct_index, difficulty, category) ==
    LET given == [choices |-> choices, options |-> options,
                  answer_index |-> answer_index, correct_index |-> correct_index,
                  difficulty |-> difficulty]
        keys == {k \in DOMAIN given : given[k].kind # "absent"}
                    \cup {"id"} \cup (IF category = "" THEN {} ELSE {"category"})
    IN  [k \in keys |-> CASE k = "id" -> id
                          [] k = "category" -> category
                          [] OTHER -> given[k]]

FourOptions == ListV(<<"7", "8", "9", "10">>)

\* raw items in both dialects with missing, non-list, too short and
\* unparseable fields
RawShapes ==
    {RawItem("R-1", ch, op, ai, ci, df, "") :
        ch \in {Absent, Junk, ListV(<<"x">>), ListV(<<"x", "y">>)},
        op \in {Absent, FourOptions},
        ai \in {Absent, None, IntV(0), IntV(1), IntV(4), IntV(-1), NumStr(1), Junk},
        ci \in {Absent, IntV(3), Junk},
        df \in {Absent, IntV(3)}}

FallbackLevels == {2, 4}
Levels == 1..5

\* the categories of the bank items the Selector is run on: absent, classic
\* only, classic and speed, neither
Categories == {"", "logic_sequence", "arithmetic_reasoning", "spatial_rotation"}

\* the generator-dialect items the Selector is run on; the item at
\* position i of a bank has the id "Q-i"
SelectorItem(i, df, cat) ==
    RawItem("Q-" \o ToString(i), Absent, FourOptions, Absent, IntV(1), df, cat)

SelectorShapes == {Absent, IntV(1), IntV(3), IntV(5)} \X Categories

\* the banks load_question_bank can return: up to MaxBank items
Banks ==
    UNION {{[i \in 1..n |-> SelectorItem(i, f[i][1], f[i][2])] :
               f \in [1..n -> SelectorShapes]} : n \in 0..MaxBank}

NormalizeCalls ==
    {[code |-> 0, op |-> "normalize", raw |-> raw, stage |-> stage,
      fallback_level |-> lvl] :
        raw \in RawShapes, stage \in Stages, lvl \in FallbackLevels}

PickCalls ==
    {[code |-> 0, op |-> "pick", bank |-> bank, stage |-> stage,
      adaptive_level |-> lvl] :
        bank \in Banks, stage \in Stages, lvl \in Levels}

InitCatalog ==
    /\ sessions = <<>>
    /\ answers = EmptyBag
    /\ tokens = <<>>
    /\ inflight = EmptyBag
    /\ resp \in NormalizeCalls \cup PickCalls

\* normalize_question(raw, stage, fallback_level) returns
Normalize ==
    /\ resp.code = 0
    /\ resp.op = "normalize"
    /\ resp' = [code |-> 200, op |-> "normalize", raw |-> resp.raw,
                stage |-> resp.stage, fallback_level |-> resp.fallback_level,
                item |-> normalize_question(resp.raw, resp.stage,
                                            resp.fallback_level)]
    /\ UNCHANGED <<sessions, answers, tokens, inflight>>

\* pick_question(stage, adaptive_level) returns, QUESTION_BANK being resp.bank
Pick ==
    /\ resp.code = 0
    /\ resp.op = "pick"
    /\ \E item \in pick_from(resp.bank, resp.stage, resp.adaptive_level) :
          resp' = [code |-> 200, op |-> "pick", bank |-> resp.bank,
                   stage |-> resp.stage, adaptive_level |-> resp.adaptive_level,
                   item |-> item]
    /\ UNCHANGED <<sessions, answers, tokens, inflight>>

NextCatalog == Normalize \/ Pick

SpecCatalog == InitCatalog /\ [][NextCatalog]_vars

-----------------------------------------------------------------------------
(* Answers that name an item id the bank does not hold.  Under SpecUnknown *)
(* every /api/test/answer request carries such an id, with choice 0 or 1.   *)

DemoChoices == {0, 1}

UnknownPayloads ==
    {[session_id |-> id, question_id |-> UnknownId,
      chosen_index |-> c, time_spent_sec |-> 10] :
        id \in SessionIds, c \in DemoChoices}

AnswerUnknown ==
    \E u \in Users, p \in UnknownPayloads : test_answer(u, p) /\ UNCHANGED inflight

NextUnknown == Start \/ AnswerUnknown

SpecUnknown == Init /\ [][NextUnknown]_vars

-----------------------------------------------------------------------------
(* Overlapping /api/test/start requests.  Under SpecStartOverlap the Start  *)
(* handler is two steps when its SELECT finds no session in progress: the   *)
(* SELECT, made outside any transaction, and the INSERT with its commit;    *)
(* inflight holds the requests between the two.                             *)

MaxStartsInFlight == 2

\* the SELECT of test_start (lines 384-392); with a row the handler only
\* reads and returns
start_read(user_id) ==
    IF SelectInProgress(user_id) # {}
    THEN test_start(user_id) /\ UNCHANGED inflight
    ELSE /\ BagCardinality(inflight) < MaxStartsInFlight
         /\ Len(sessions) + BagCardinality(inflight) < MaxSessions
         /\ inflight' = inflight (+) SetToBag({[user_id |-> user_id]})
         /\ UNCHANGED <<sessions, answers, tokens, resp>>

\* the INSERT of test_start (lines 421-429) and its response, by a request
\* whose SELECT found no row
start_write(req) ==
    /\ BagIn(req, inflight)
    /\ inflight' = inflight (-) SetToBag({req})
    /\ sessions' = Append(sessions,
           [user_id |-> req.user_id, status |-> "in_progress",
            stage |-> "adaptive", stage_index |-> 1, question_index |-> 1,
            adaptive_level |-> 2, final_iq |-> NULL, percentile |-> NULL,
            result_locked |-> 1, unlock_token_id |-> NULL])
    /\ \E q \in pick_question("adaptive", 2) :
           resp' = [code |-> 200,
                    session_id |-> Len(sessions) + 1,
                    stage |-> "adaptive", stage_index |-> 1,
                    question_index |-> 1, question |-> View(q, "adaptive")]
    /\ UNCHANGED <<answers, tokens>>

StartRead == \E u \in Users : start_read(u)
StartWrite == \E req \in BagToSet(inflight) : start_write(req)

NextStartOverlap == StartRead \/ StartWrite \/ Answer

SpecStartOverlap == Init /\ [][NextStartOverlap]_vars

-----------------------------------------------------------------------------
(* Properties *)

\* number of answers recorded for a session in a stage
Count(tbl, id, stage) ==
    SumFn([r \in DOMAIN tbl |->
              IF r.session_id = id /\ r.stage = stage THEN tbl[r] ELSE 0])

\* this step recorded an answer for session id
Recorded(id) ==
    /\ answers' # answers
    /\ BagCardinality(RowsOf(answers', id)) = BagCardinality(RowsOf(answers, id)) + 1

\* the row this step recorded
NewRow == CHOOSE r \in DOMAIN answers' : CopiesIn(r, answers') > CopiesIn(r, answers)

\* C1, step part: a session's (status, stage) only moves adaptive -> classic
\* -> speed -> completed, one hop at a time, and each hop is taken by the
\* answer that makes the stage's count 12, 18, 20
C1_Step ==
    \A id \in DOMAIN sessions :
        LET a == sessions[id]
            b == sessions'[id]
            n(stage) == Count(answers', id, stage)
        IN  \/ a.status = b.status /\ a.stage = b.stage
            \/ /\ a.status = "in_progress" /\ b.status = "in_progress"
               /\ a.stage = "adaptive" /\ b.stage = "classic"
               /\ Recorded(id) /\ n("adaptive") = 12 /\ n("classic") = 0
            \/ /\ a.status = "in_progress" /\ b.status = "in_progress"
               /\ a.stage = "classic" /\ b.stage = "speed"
               /\ Recorded(id) /\ n("classic") = 18 /\ n("speed") = 0
            \/ /\ a.status = "in_progress" /\ b.status = "completed"
               /\ a.stage = "speed" /\ b.stage = "speed"
               /\ Recorded(id) /\ n("speed") = 20

\* C1, state part: a completed session holds exactly 12 + 18 + 20 = 50
\* answers, a session in progress fewer
C1_Counts ==
    \A id \in DOMAIN sessions :
        LET n(stage) == Count(answers, id, stage)
            total == BagCardinality(RowsOf(answers, id))
        IN  /\ total = n("adaptive") + n("classic") + n("speed")
            /\ IF sessions[id].status = "completed"
               THEN n("adaptive") = 12 /\ n("classic") = 18 /\ n("speed") = 20
                    /\ total = 50
               ELSE total < 50

\* C1: for any sequence of accepted Answer calls on one session the stages are
\* visited only in the order adaptive, classic, speed, completed, with exactly
\* 12, 18 and 20 answers recorded in them; a session is completed after
\* exactly 50 recorded answers, never with fewer or more.
C1_StageOrder == []C1_Counts /\ [][C1_Step]_vars

\* C1 witness: a session ran through all three stages and is completed
C1_Witness ==
    \E id \in DOMAIN sessions :
        /\ sessions[id].status = "completed"
        /\ BagCardinality(RowsOf(answers, id)) = 50

\* C2: in every reachable state of an in-progress session the stored
\* question_index is between 1 and the item limit of the stored stage
\* (12 adaptive, 18 classic, 20 speed).
C2_IndexInRange ==
    \A id \in DOMAIN sessions :
        sessions[id].status = "in_progress" =>
            /\ sessions[id].question_index >= 1
            /\ sessions[id].stage = "adaptive" => sessions[id].question_index <= 12
            /\ sessions[id].stage = "classic" => sessions[id].question_index <= 18
            /\ sessions[id].stage = "speed" => sessions[id].question_index <= 20

\* C2 witness: a session in progress sits on the last question of the classic
\* stage, having just left the adaptive stage's last question behind
C2_Witness ==
    \E id \in DOMAIN sessions :
        /\ sessions[id].status = "in_progress"
        /\ sessions[id].stage = "classic"
        /\ sessions[id].question_index = 18

\* C3: every accepted Answer on an in-progress session increments
\* question_index by exactly 1 and leaves the stage unchanged, except when the
\* incremented value exceeds the stage's limit: then the same call resets
\* question_index to 1 and advances adaptive to classic or classic to speed
\* (from speed the call completes the session).
C3_Step ==
    \A id \in DOMAIN sessions :
        (sessions[id].status = "in_progress" /\ Recorded(id)) =>
            LET a == sessions[id]
                b == sessions'[id]
                limit == CASE a.stage = "adaptive" -> 12
                           [] a.stage = "classic" -> 18
                           [] OTHER -> 20
            IN  IF a.question_index + 1 <= limit
                THEN /\ b.question_index = a.question_index + 1
                     /\ b.stage = a.stage /\ b.stage_index = a.stage_index
                     /\ b.status = "in_progress"
                ELSE CASE a.stage = "adaptive" ->
                            b.question_index = 1 /\ b.stage = "classic"
                            /\ b.status = "in_progress"
                       [] a.stage = "classic" ->
                            b.question_index = 1 /\ b.stage = "speed"
                            /\ b.status = "in_progress"
                       [] OTHER -> b.status = "completed"

C3_Transition == [][C3_Step]_vars

\* C3 witness: the answer that exceeded the classic limit has just been
\* recorded: the session is on question 1 of speed with 18 classic answers
C3_Witness ==
    \E id \in DOMAIN sessions :
        /\ sessions[id].status = "in_progress"
        /\ sessions[id].stage = "speed" /\ sessions[id].question_index = 1
        /\ Count(answers, id, "classic") = 18
        /\ "finished" \in DOMAIN resp /\ ~resp.finished /\ resp.stage = "speed"

StageIndexOf(stage) ==
    CASE stage = "adaptive" -> 1
      [] stage = "classic" -> 2
      [] stage = "speed" -> 3

\* C4: in every reachable session state stage_index corresponds to stage
\* (1 adaptive, 2 classic, 3 speed), and the stage_index returned by Start and
\* Answer is the one matching the returned stage.
C4_StageIndex ==
    /\ \A id \in DOMAIN sessions :
          /\ sessions[id].stage \in Stages
          /\ sessions[id].stage_index = StageIndexOf(sessions[id].stage)
    /\ "stage_index" \in DOMAIN resp =>
          /\ resp.stage \in Stages
          /\ resp.stage_index = StageIndexOf(resp.stage)

\* C4 witness: Answer returned stage speed with stage_index 3
C4_Witness ==
    /\ "finished" \in DOMAIN resp /\ ~resp.finished
    /\ resp.stage = "speed" /\ resp.stage_index = 3
    /\ \E id \in DOMAIN sessions : sessions[id].stage_index = 3

\* C5: the stored ability_level of a session is in [1,5] in every reachable
\* state, for every sequence of correct and incorrect answers from level 2.
C5_LevelInRange ==
    \A id \in DOMAIN sessions :
        sessions[id].adaptive_level >= 1 /\ sessions[id].adaptive_level <= 5

\* C5 witness: an incorrect adaptive answer was recorded while the level was
\* already 1 (an item without difficulty carries the level), and the level
\* is still 1
C5_Witness ==
    \E id \in DOMAIN sessions :
        /\ sessions[id].adaptive_level = 1
        /\ \E r \in DOMAIN RowsOf(answers, id) :
              r.stage = "adaptive" /\ r.is_correct = 0 /\ r.difficulty = 1

\* C6, step part: the answer recorded in the adaptive stage moves the level
\* by the clamped +1 / -1, an answer recorded in classic or speed and every
\* other request leave it unchanged
C6_Step ==
    \A id \in DOMAIN sessions :
        LET a == sessions[id]
            b == sessions'[id]
        IN  IF Recorded(id) /\ a.stage = "adaptive"
            THEN /\ NewRow.stage = "adaptive"
                 /\ b.adaptive_level =
                       IF NewRow.is_correct = 1
                       THEN (IF a.adaptive_level + 1 < 5 THEN a.adaptive_level + 1 ELSE 5)
                       ELSE (IF a.adaptive_level - 1 > 1 THEN a.adaptive_level - 1 ELSE 1)
            ELSE b.adaptive_level = a.adaptive_level

\* C6, scenario: while all adaptive answers of a session are correct its
\* level is min(5, 2 + their number): 3, 4, 5 and then 5 up to completion
C6_Scenario ==
    \A id \in DOMAIN sessions :
        LET n == Count(answers, id, "adaptive")
            wrong == \E r \in DOMAIN answers :
                        r.session_id = id /\ r.stage = "adaptive" /\ r.is_correct = 0
        IN  ~wrong => sessions[id].adaptive_level = (IF 2 + n < 5 THEN 2 + n ELSE 5)

\* C6: an Answer recorded in the adaptive stage sets ability_level to
\* min(5, level+1) if correct and max(1, level-1) otherwise (12 correct answers
\* from 2 reach 5 by the 3rd and stay); an Answer recorded in classic or speed
\* leaves it unchanged, so the value after the 12th adaptive answer is the
\* value held at completion.
C6_AbilityUpdate == []C6_Scenario /\ [][C6_Step]_vars

\* C6 witness: a completed session with 12 correct adaptive answers and an
\* incorrect answer in a later stage still has level 5
C6_Witness ==
    \E id \in DOMAIN sessions :
        /\ sessions[id].status = "completed"
        /\ sessions[id].adaptive_level = 5
        /\ \A r \in DOMAIN RowsOf(answers, id) : r.stage = "adaptive" => r.is_correct = 1
        /\ \E r \in DOMAIN RowsOf(answers, id) : r.stage # "adaptive" /\ r.is_correct = 0

\* C7, step part: the step that records the 20th speed answer, and no other,
\* completes the session, storing the score of all its answers, this one
\* included, locking the result and returning finished without an item
C7_Step ==
    \A id \in DOMAIN sessions :
        LET a == sessions[id]
            b == sessions'[id]
            twentieth == Recorded(id) /\ Count(answers', id, "speed") = 20
        IN  /\ (a.status # "completed" /\ b.status = "completed") => twentieth
            /\ twentieth =>
                  LET iq == Iq(RowsOf(answers', id))
                  IN  /\ a.status = "in_progress" /\ b.status = "completed"
                      /\ b.final_iq = <<iq>>
                      /\ b.percentile = <<Percentile(iq)>>
                      /\ b.result_locked = 1
                      /\ b.unlock_token_id = NULL
                      /\ resp' = [code |-> 200, finished |-> TRUE,
                                  result_locked |-> TRUE, session_id |-> id]

\* C7: the Answer call that records the 20th speed answer sets the status to
\* completed, stores iq and percentile equal to the Scorer applied to all
\* recorded answers of that session including the one just submitted, sets
\* result_locked with no unlock token, and returns finished=true with no next
\* item.
C7_Completion == [][C7_Step]_vars

\* C7 witness: a session has just been completed whose only correct answer
\* is one speed answer: the score of its 50 answers is 71, not 70
C7_Witness ==
    /\ "finished" \in DOMAIN resp /\ resp.finished
    /\ "question" \notin DOMAIN resp
    /\ LET id == resp.session_id
       IN  /\ sessions[id].status = "completed" /\ sessions[id].result_locked = 1
           /\ sessions[id].final_iq = <<71>>
           /\ Count(answers, id, "speed") = 20
           /\ \A r \in DOMAIN RowsOf(answers, id) :
                 r.is_correct = 1 => (r.stage = "speed" /\ answers[r] = 1)

\* C8, step part: an Answer request of the owner for a completed session
C8_Step ==
    \A u \in Users, p \in AnswerPayloads :
        (/\ p.session_id \in DOMAIN sessions
         /\ sessions[p.session_id].user_id = u
         /\ sessions[p.session_id].status = "completed"
         /\ test_answer(u, p))
        => /\ resp' = HTTPException(400, "Session already completed.")
           /\ UNCHANGED <<sessions, answers, tokens>>

\* C8: once a session is completed every further Answer call for it is
\* rejected with the session-not-in-progress error, serves no item, records no
\* answer and leaves the session state unchanged.
C8_AnswerRejected == [][C8_Step]_vars

\* C8 witness: an Answer call has just been rejected for a completed session
C8_Witness ==
    /\ resp = HTTPException(400, "Session already completed.")
    /\ \E id \in DOMAIN sessions :
          sessions[id].status = "completed" /\ BagCardinality(RowsOf(answers, id)) = 50

\* C9, step part: the response of Get Result, case by case
C9_Step ==
    \A u \in Users, id \in SessionIds :
        get_result(u, id) =>
            IF ~(id \in DOMAIN sessions /\ sessions[id].user_id = u)
            THEN resp' = HTTPException(404, "Session not found.")
            ELSE IF sessions[id].status # "completed"
            THEN resp' = HTTPException(400, "Session is not completed yet.")
            ELSE IF sessions[id].result_locked = 1
            THEN resp' = HTTPException(402, "Payment required. Result is locked.")
            ELSE /\ resp'.code = 200
                 /\ resp'.iq = sessions[id].final_iq
                 /\ resp'.percentile = sessions[id].percentile

\* C9, state part: a returned result belongs to a completed session that an
\* Unlock call has unlocked, and is the score of that session's answers
C9_Returned ==
    "iq" \in DOMAIN resp =>
        LET id == resp.session_id
            iq == Iq(RowsOf(answers, id))
        IN  /\ id \in DOMAIN sessions
            /\ sessions[id].status = "completed"
            /\ sessions[id].result_locked = 0
            /\ sessions[id].unlock_token_id # NULL
            /\ resp.iq = <<iq>>
            /\ resp.percentile = <<Percentile(iq)>>

\* C9: Get Result returns SessionNotFound if no session matches id and owner,
\* otherwise SessionNotCompleted if the session is not completed, otherwise
\* PaymentRequired while result_locked is true; it returns the iq and
\* percentile stored at completion exactly when the session is completed and
\* unlocked, in particular after one successful Unlock call.
C9_GetResult == []C9_Returned /\ [][C9_Step]_vars

\* C9 witness: a result has been returned after exactly one Unlock
C9_Witness ==
    /\ "iq" \in DOMAIN resp
    /\ Len(tokens) = 1
    /\ sessions[resp.session_id].unlock_token_id = <<1>>

\* C10, step part: a paid Unlock of the owner for an unlocked session
C10_Step ==
    \A u \in Users, p \in UnlockPayloads :
        (/\ p.paid
         /\ p.session_id \in DOMAIN sessions
         /\ sessions[p.session_id].user_id = u
         /\ sessions[p.session_id].status = "completed"
         /\ sessions[p.session_id].result_locked = 0
         /\ unlock_result(u, p))
        => /\ resp' = [code |-> 200, ok |-> TRUE, session_id |-> p.session_id,
                       already_unlocked |-> TRUE]
           /\ UNCHANGED <<sessions, answers, tokens>>

\* C10, state part: the token records are exactly the tokens of the unlocked
\* sessions, one each
C10_OneToken ==
    LET unlocked == {id \in DOMAIN sessions : sessions[id].result_locked = 0}
    IN  /\ Len(tokens) = Cardinality(unlocked)
        /\ \A id \in DOMAIN sessions :
              IF id \in unlocked
              THEN /\ sessions[id].unlock_token_id # NULL
                   /\ sessions[id].unlock_token_id[1] \in DOMAIN tokens
                   /\ tokens[sessions[id].unlock_token_id[1]].user_id = sessions[id].user_id
                   /\ tokens[sessions[id].unlock_token_id[1]].status = "used"
              ELSE sessions[id].unlock_token_id = NULL
        /\ \A i, j \in unlocked :
              sessions[i].unlock_token_id = sessions[j].unlock_token_id => i = j

\* C10: Unlock is idempotent: a paid Unlock on an already unlocked session
\* reports success with already_unlocked=true, creates no token record and
\* leaves result_locked and unlock_token_id unchanged, so after any number of
\* successful Unlock calls exactly one token record exists for the session.
C10_Idempotent == []C10_OneToken /\ [][C10_Step]_vars

\* C10 witness: a second Unlock has reported already_unlocked and the table
\* holds the one token of the first
C10_Witness ==
    /\ "already_unlocked" \in DOMAIN resp /\ resp.already_unlocked
    /\ Len(tokens) = 1
    /\ sessions[resp.session_id].unlock_token_id = <<1>>

\* C11, step part: a session whose result_locked goes from 1 to 0 in a step
\* was completed and the step is a paid Unlock of its owner that answers 200
\* and stores the id of the token it has just created and marked used; the
\* other calls and the failed Unlock calls never clear result_locked
C11_Step ==
    /\ \A id \in DOMAIN sessions :
          (sessions[id].result_locked = 1 /\ sessions'[id].result_locked = 0)
          => /\ sessions[id].status = "completed"
             /\ sessions'[id].unlock_token_id = <<Len(tokens')>>
             /\ Len(tokens') = Len(tokens) + 1
             /\ tokens'[Len(tokens')].status = "used"
             /\ resp' = [code |-> 200, ok |-> TRUE, session_id |-> id,
                         unlock_token_id |-> Len(tokens')]
             /\ \E p \in UnlockPayloads :
                   /\ p.paid
                   /\ p.session_id = id
                   /\ unlock_result(sessions[id].user_id, p)
             /\ \A u \in Users, p \in UnlockPayloads :
                   unlock_result(u, p) => (p.paid /\ u = sessions[id].user_id)
    /\ \A id \in DOMAIN sessions' \ DOMAIN sessions : sessions'[id].result_locked = 1
    /\ (\/ resp'.code # 200
        \/ "ok" \notin DOMAIN resp'
        \/ "already_unlocked" \in DOMAIN resp')
       => \A id \in DOMAIN sessions : sessions'[id].result_locked = sessions[id].result_locked

\* C11, state part: an unlocked session is a completed one
C11_UnlockedCompleted ==
    \A id \in DOMAIN sessions :
        sessions[id].result_locked = 0 => sessions[id].status = "completed"

\* C11: result_locked of a session changes from true to false only by an
\* Unlock call with paid=true on a completed session owned by the caller, and
\* that same call records the unlock token reference; no Start, Answer, Get
\* Result or failed Unlock call ever sets result_locked to false.
C11_OnlyPaidUnlock == []C11_UnlockedCompleted /\ [][C11_Step]_vars

\* C11 witness: the last call was the Unlock that cleared result_locked of a
\* completed session and stored its token
C11_Witness ==
    /\ "unlock_token_id" \in DOMAIN resp
    /\ sessions[resp.session_id].status = "completed"
    /\ sessions[resp.session_id].result_locked = 0
    /\ sessions[resp.session_id].unlock_token_id = <<resp.unlock_token_id>>
    /\ tokens[resp.unlock_token_id].status = "used"

\* C12, step part: what an Unlock call without payment does, and what a paid
\* one does for a session of the caller that is not completed
C12_Step ==
    \A u \in Users, p \in UnlockPayloads :
        unlock_result(u, p) =>
            /\ ~p.paid =>
                  /\ resp' = HTTPException(402, "Payment required.")
                  /\ UNCHANGED <<sessions, answers, tokens>>
            /\ (/\ p.paid
                /\ p.session_id \in DOMAIN sessions
                /\ sessions[p.session_id].user_id = u
                /\ sessions[p.session_id].status # "completed") =>
                  /\ resp' = HTTPException(400, "Session is not completed yet.")
                  /\ UNCHANGED <<sessions, answers, tokens>>

\* C12: An Unlock call with paid=false fails with PaymentRequired for every
\* session id and every session state, creates no token record and leaves
\* every session unchanged; an Unlock call with paid=true on a session that is
\* not completed fails with the not-completed error and changes nothing.
C12_UnlockRefused == [][C12_Step]_vars

\* C12 witness: an Unlock without payment has just been refused while a
\* completed, still locked session and a session in progress exist, and no
\* token has been created
C12_Witness ==
    /\ resp = HTTPException(402, "Payment required.")
    /\ tokens = <<>>
    /\ \E id \in DOMAIN sessions :
          sessions[id].status = "completed" /\ sessions[id].result_locked = 1
    /\ \E id \in DOMAIN sessions : sessions[id].status = "in_progress"

\* the session id names a session of another user
Foreign(session_id, user_id) ==
    session_id \in DOMAIN sessions /\ sessions[session_id].user_id # user_id

\* the calls that name a session of another user: <<caller, session id>>
ForeignPairs ==
    {c \in Users \X DOMAIN sessions : Foreign(c[2], c[1])}

\* C13 as stated, step part: every Answer, Unlock and Get Result call that
\* names a session of another user is answered 404 and changes nothing
C13_StatedStep ==
    \A c \in ForeignPairs :
        LET u == c[1]
            id == c[2]
        IN  /\ \A sub \in Submissions :
                  test_answer(u, [session_id |-> id, question_id |-> sub.question_id,
                                  chosen_index |-> sub.chosen_index,
                                  time_spent_sec |-> sub.time_spent_sec])
                  => /\ resp' = HTTPException(404, "Session not found.")
                     /\ UNCHANGED <<sessions, answers, tokens>>
            /\ \A p \in [session_id : {id}, paid : BOOLEAN, paddle_txn_id : TxnRefs] :
                  unlock_result(u, p)
                  => /\ resp' = HTTPException(404, "Session not found.")
                     /\ UNCHANGED <<sessions, answers, tokens>>
            /\ get_result(u, id)
                  => /\ resp' = HTTPException(404, "Session not found.")
                     /\ UNCHANGED <<sessions, answers, tokens>>

\* C13 as stated: Answer, Unlock and Get Result called with a session id that
\* exists but belongs to a different user fail with SessionNotFound and leave
\* that session, its answers and all token records unchanged.
C13_AsStated == [][C13_StatedStep]_vars

\* C13 amended, step part: the same, except that an Unlock call without
\* payment is answered 402 before the session is looked up
C13_Step ==
    \A c \in ForeignPairs :
        LET u == c[1]
            id == c[2]
        IN  /\ \A sub \in Submissions :
                  test_answer(u, [session_id |-> id, question_id |-> sub.question_id,
                                  chosen_index |-> sub.chosen_index,
                                  time_spent_sec |-> sub.time_spent_sec])
                  => /\ resp' = HTTPException(404, "Session not found.")
                     /\ UNCHANGED <<sessions, answers, tokens>>
            /\ \A p \in [session_id : {id}, paid : BOOLEAN, paddle_txn_id : TxnRefs] :
                  unlock_result(u, p)
                  => /\ resp' = IF p.paid THEN HTTPException(404, "Session not found.")
                                          ELSE HTTPException(402, "Payment required.")
                     /\ UNCHANGED <<sessions, answers, tokens>>
            /\ get_result(u, id)
                  => /\ resp' = HTTPException(404, "Session not found.")
                     /\ UNCHANGED <<sessions, answers, tokens>>

\* C13, amended: Answer, Get Result and Unlock with paid=true called with a
\* session id that exists but belongs to a different user fail with
\* SessionNotFound, Unlock with paid=false fails with PaymentRequired, and all
\* of them leave that session, its answers and all token records unchanged.
C13_ForeignSession == [][C13_Step]_vars

\* C13 witness: a call has just been answered "not found" while both users
\* own sessions with recorded answers and an unlock token exists
C13_Witness ==
    /\ resp = HTTPException(404, "Session not found.")
    /\ tokens # <<>>
    /\ \A u \in Users : \E id \in DOMAIN sessions :
          sessions[id].user_id = u /\ RowsOf(answers, id) # EmptyBag

\* C14: when two Answer requests for the same session overlap, their read of
\* the session state and their write do not interleave: every recorded answer
\* advances the session by exactly one position, so the answers of a session
\* in progress are one per position passed (no two for the same stage and
\* question_index) and a completed session has exactly 50.
C14_OnePositionEach ==
    \A id \in DOMAIN sessions :
        /\ BagCardinality(RowsOf(answers, id))
              = IF sessions[id].status = "completed" THEN 50
                ELSE Pos(sessions[id]) - 1
        /\ \A s \in Stages : Count(answers, id, s) <= stage_limits(s)

\* the last response shows an item to the test-taker of session id: a Start
\* response names its session, an Answer response belongs to the only session
ShownFor(id) ==
    /\ "question" \in DOMAIN resp
    /\ IF "session_id" \in DOMAIN resp THEN resp.session_id = id
       ELSE Len(sessions) = 1

\* the answer_index of the item the last response shows
ShownAnswerIndex ==
    IF QUESTION_BY_ID(resp.question.id) = <<>> THEN 0
    ELSE normalize_question(QUESTION_BY_ID(resp.question.id)[1],
                            resp.question.stage, 2).answer_index

\* C15, step part: an answer recorded right after a response that showed an
\* item for its session carries the difficulty of that item and is marked
\* correct exactly when the chosen index is that item's answer_index
C15_Step ==
    \A id \in DOMAIN sessions :
        (ShownFor(id) /\ Recorded(id))
        => /\ NewRow.difficulty = resp.question.difficulty
           /\ NewRow.is_correct
                 = (IF NewRow.chosen_index = ShownAnswerIndex THEN 1 ELSE 0)

\* C15: Within one session, the correctness and difficulty recorded for an
\* answer are those of the item that was shown to the test-taker by the
\* preceding Start or Answer response, never those of a freshly selected item
\* or of any other item.
C15_ShownItemGraded == [][C15_Step]_vars

\* C16, step part: a step adds nothing to test_answers or exactly one row,
\* and every row that was there is still there, as it was
C16_AppendOnly ==
    /\ answers \sqsubseteq answers'
    /\ BagCardinality(answers') <= BagCardinality(answers) + 1
    /\ \A u \in Users, p \in AnswerPayloads :
          (test_answer(u, p) /\ resp'.code = 200)
          => /\ BagCardinality(answers') = BagCardinality(answers) + 1
             /\ Recorded(p.session_id)

\* C16, state part: a session in progress holds as many answers as the limits
\* of its finished stages plus question_index - 1, a completed session 50
C16_Counts ==
    \A id \in DOMAIN sessions :
        LET finished == {s \in Stages : StageIndexOf(s) < sessions[id].stage_index}
        IN  BagCardinality(RowsOf(answers, id))
              = IF sessions[id].status = "completed" THEN 50
                ELSE SumFn([s \in finished |-> stage_limits(s)])
                     + sessions[id].question_index - 1

\* C16: Each accepted Answer call appends exactly one answer record to the
\* session and no call ever modifies or deletes an existing record, so in
\* every reachable state the number of answer records of an in-progress
\* session equals the sum of the limits of its finished stages plus
\* question_index minus 1, and for a completed session equals 50.
C16_AppendOnlyCounts == []C16_Counts /\ [][C16_AppendOnly]_vars

\* the history the last Score call has scored
Scored == RowsOf(answers, resp.session_id)

\* max_points of a stage as the rule states it, in units of 1/300:
\* every answer adds w = 1 + 0.15 * (difficulty - 1)
RuleMax(rows, s) ==
    SumFn([r \in DOMAIN rows |->
              IF r.stage = s THEN rows[r] * (300 + 45 * (r.difficulty - 1)) ELSE 0])

\* points of a stage when a correct answer adds w and nothing else
RuleWeightPoints(rows, s) ==
    SumFn([r \in DOMAIN rows |->
              IF r.stage = s /\ r.is_correct = 1
              THEN rows[r] * (300 + 45 * (r.difficulty - 1)) ELSE 0])

\* points of a stage when a correct speed answer also adds its time bonus
\* max(0, (30 - min(30, t)) / 30) * 0.2
RulePoints(rows, s) ==
    RuleWeightPoints(rows, s)
    + SumFn([r \in DOMAIN rows |->
                IF r.stage = s /\ s = "speed" /\ r.is_correct = 1
                THEN rows[r] * 2 * (IF r.time_spent_sec >= 30 THEN 0
                                    ELSE 30 - r.time_spent_sec)
                ELSE 0])

\* 0 when max_points <= 0, otherwise min(1, points / max_points)
RuleNorm(p, m) == IF m <= 0 THEN <<0, 1>> ELSE IF p >= m THEN <<1, 1>> ELSE <<p, m>>

\* 0.35 * a + 0.45 * c + 0.20 * s rounded to 4 places, in units of 1/10000
RuleFinal(a, c, s) ==
    RoundHalfEven(Split(3500, a).int + Split(4500, c).int + Split(2000, s).int,
                  Split(3500, a).frac, Split(4500, c).frac, Split(2000, s).frac)

\* every answer of the history is correct
AllCorrect(rows) == rows # EmptyBag /\ \A r \in DOMAIN rows : r.is_correct = 1

\* C17 as stated: for every answer history, the per-stage normalized score is
\* 0 when max_points <= 0 and otherwise min(1, points/max_points), where every
\* answer adds w = 1 + 0.15*(difficulty-1) to max_points and, only if correct,
\* w to points; final_norm is 0.35*norm(adaptive) + 0.45*norm(classic) +
\* 0.20*norm(speed), so a history in which every answer is correct yields
\* final_norm = 1 and iq = 130.
C17_AsStated ==
    "result" \in DOMAIN resp =>
        LET n(s) == RuleNorm(RuleWeightPoints(Scored, s), RuleMax(Scored, s))
        IN  /\ \A s \in Stages : norm(Scored, s) = n(s)
            /\ resp.result.final_norm = RuleFinal(n("adaptive"), n("classic"), n("speed"))
            /\ AllCorrect(Scored) =>
                  resp.result.final_norm = 10000 /\ resp.result.iq = 130

\* C17, amended: the same, with the time bonus of a correct speed-stage answer
\* added to the points of the speed stage, and with final_norm = 1 and
\* iq = 130 for the histories in which every answer is correct and every stage
\* has max_points > 0.
C17_ScoreRule ==
    "result" \in DOMAIN resp =>
        LET n(s) == RuleNorm(RulePoints(Scored, s), RuleMax(Scored, s))
        IN  /\ \A s \in Stages :
                  /\ max_pts(Scored, s) = RuleMax(Scored, s)
                  /\ pts(Scored, s) = RulePoints(Scored, s)
                  /\ norm(Scored, s) = n(s)
            /\ resp.result.final_norm = RuleFinal(n("adaptive"), n("classic"), n("speed"))
            /\ (AllCorrect(Scored) /\ \A s \in Stages : RuleMax(Scored, s) > 0) =>
                  resp.result.final_norm = 10000 /\ resp.result.iq = 130

\* C17 witness: a history with one correct answer in each stage has been
\* scored 130
C17_Witness ==
    /\ "result" \in DOMAIN resp
    /\ resp.result.iq = 130
    /\ resp.result.final_norm = 10000
    /\ AllCorrect(Scored)
    /\ \A s \in Stages : Count(answers, resp.session_id, s) = 1

\* C18: for every answer history the engine can record (any stored
\* difficulty, correctness and time_spent values), the Scorer's final_norm is
\* in [0,1] and its iq is an integer in [70,130].
C18_ScoreRange ==
    "result" \in DOMAIN resp =>
        /\ 0 <= resp.result.final_norm /\ resp.result.final_norm <= 10000
        /\ 70 <= resp.result.iq /\ resp.result.iq <= 130

\* the iq values the step function is compared on
IqRange == 0 .. 140

\* the percentile table of the claim
StepOf(iq) ==
    CASE iq <= 70 -> 2
      [] iq > 70 /\ iq <= 85 -> 16
      [] iq > 85 /\ iq <= 100 -> 50
      [] iq > 100 /\ iq <= 110 -> 75
      [] iq > 110 /\ iq <= 115 -> 84
      [] iq > 115 /\ iq <= 120 -> 91
      [] iq > 120 /\ iq <= 125 -> 95
      [] OTHER -> 98

\* C19: the percentile of a score is the fixed step function of its iq: 2 if
\* iq <= 70, 16 if iq <= 85, 50 if iq <= 100, 75 if iq <= 110, 84 if
\* iq <= 115, 91 if iq <= 120, 95 if iq <= 125, and 98 otherwise; hence
\* percentile is non-decreasing in iq.  (The comparison over IqRange does not
\* depend on the state and is made where the table is empty.)
C19_PercentileStep ==
    /\ "result" \in DOMAIN resp =>
          resp.result.percentile = StepOf(resp.result.iq)
    /\ LET a == compute_result(answers, 1)
           b == compute_result(answers, 2)
       IN  /\ a.iq <= b.iq => a.percentile <= b.percentile
           /\ b.iq <= a.iq => b.percentile <= a.percentile
    /\ answers = EmptyBag =>
          \A iq \in IqRange :
              /\ Percentile(iq) = StepOf(iq)
              /\ Percentile(iq) <= Percentile(iq + 1)

\* C19 witness: a history has been scored 118, inside the band 116..120,
\* with percentile 91
C19_Witness ==
    /\ "result" \in DOMAIN resp
    /\ resp.result.iq = 118
    /\ resp.result.percentile = 91

\* what the Scorer may depend on in a recorded answer
Projection(r) ==
    [stage |-> r.stage, is_correct |-> r.is_correct,
     difficulty |-> r.difficulty, time_spent_sec |-> r.time_spent_sec]

\* the recorded answers of a session
Own(tbl, id) ==
    [r \in {q \in DOMAIN tbl : q.session_id = id} |-> tbl[r]]

\* the recorded answers of a session as a bag of projections
History(id) ==
    LET rows == Own(answers, id)
    IN  [x \in {Projection(r) : r \in DOMAIN rows} |->
            SumFn([r \in {q \in DOMAIN rows : Projection(q) = x} |-> rows[r]])]

\* C20: the Scorer has no hidden state: two sessions whose recorded answers
\* agree in (stage, correct, difficulty, time_spent) get identical (iq,
\* percentile, final_norm), whatever their session ids, item ids and chosen
\* indices, and the score of a session is the score of its own answers alone,
\* whatever answers other sessions hold.
C20_NoHiddenState ==
    /\ History(1) = History(2)
          => compute_result(answers, 1) = compute_result(answers, 2)
    /\ \A i \in {1, 2} :
          compute_result(answers, i) = compute_result(Own(answers, i), i)
    /\ "result" \in DOMAIN resp =>
          resp.result = compute_result(Own(answers, resp.session_id), resp.session_id)

\* C20 witness: two sessions hold answers that agree in (stage, correct,
\* difficulty, time_spent) and differ in item id and chosen index, and one of
\* them has been scored
C20_Witness ==
    /\ "result" \in DOMAIN resp
    /\ History(1) = History(2)
    /\ Own(answers, 1) # EmptyBag
    /\ resp.result.iq > 70

\* C21: every raw catalog item, in either field-naming dialect and with
\* missing, non-list, too short or unparseable fields, is normalized to an
\* item with at least 2 choices and a correct index i, 0 <= i < len(choices).
C21_IndexInRange ==
    (resp.code = 200 /\ resp.op = "normalize") =>
        /\ Len(resp.item.choices) >= 2
        /\ 0 <= resp.item.answer_index
        /\ resp.item.answer_index < Len(resp.item.choices)

\* the stage's eligibility rule on an item in canonical shape
Rule(q, stage, ability_level) ==
    CASE stage = "adaptive" -> Abs(q.difficulty - ability_level) <= 1
      [] stage = "classic" ->
            /\ q.category \in CLASSIC_CATS \cup {""}
            /\ q.difficulty \in 2..4
      [] OTHER ->
            /\ q.category \in SPEED_CATS \cup {""}
            /\ q.difficulty \in 1..3

\* the items of a catalog in canonical shape, as served in the given stage
\* at the given ability level
CatalogItems(bank, stage, ability_level) ==
    {normalize_question(bank[i], stage,
                        IF stage = "adaptive" THEN ability_level ELSE 2) :
        i \in DOMAIN bank}

\* C22: for a non-empty catalog the Selector returns a catalog item, and one
\* that satisfies the stage's eligibility rule whenever at least one catalog
\* item satisfies it (adaptive: |difficulty - ability_level| <= 1; classic:
\* category in the six-category list or absent and difficulty in 2..4;
\* speed: category in the four-category list or absent and difficulty in 1..3).
C22_EligibleServed ==
    (resp.code = 200 /\ resp.op = "pick" /\ Len(resp.bank) > 0) =>
        LET items == CatalogItems(resp.bank, resp.stage, resp.adaptive_level)
        IN  /\ resp.item \in items
            /\ (\E q \in items : Rule(q, resp.stage, resp.adaptive_level))
                  => Rule(resp.item, resp.stage, resp.adaptive_level)

\* the same statement for the banks whose items all hold a difficulty
C22_WithDifficulty ==
    (resp.code = 200 /\ resp.op = "pick"
       /\ \A i \in DOMAIN resp.bank : "difficulty" \in DOMAIN resp.bank[i])
        => C22_EligibleServed

\* C23: an Answer whose item id is not in the catalog never fails: it is
\* graded against a demo item whose correct index is 0, so it is recorded
\* as correct exactly when chosen_index = 0, with difficulty equal to the
\* ability level in the adaptive stage and 2 otherwise, and the session
\* advances as for any other answer (one position on, the ability level
\* one step up or down within 1..5 in the adaptive stage, completion after
\* the last speed item).
C23_Step ==
    \A id \in DOMAIN sessions :
        (Recorded(id) /\ NewRow.question_id \notin BankIds) =>
            LET sess == sessions[id]
                r == NewRow
                last == Pos(sess) = stage_limits("adaptive")
                           + stage_limits("classic") + stage_limits("speed")
            IN  /\ resp'.code = 200
                /\ r.is_correct = (IF r.chosen_index = 0 THEN 1 ELSE 0)
                /\ r.stage = sess.stage
                /\ r.difficulty = (IF sess.stage = "adaptive"
                                   THEN sess.adaptive_level ELSE 2)
                /\ IF last
                   THEN /\ sessions'[id].status = "completed"
                        /\ resp'.finished
                   ELSE /\ sessions'[id].status = "in_progress"
                        /\ Pos(sessions'[id]) = Pos(sess) + 1
                        /\ ~resp'.finished
                /\ sessions'[id].adaptive_level =
                      (IF sess.stage # "adaptive" THEN sess.adaptive_level
                       ELSE IF r.is_correct = 1
                            THEN Min(5, sess.adaptive_level + 1)
                            ELSE Max(1, sess.adaptive_level - 1))

\* the only refusals of an Answer are those that do not depend on the item
\* id, and they change nothing
C23_Refusals ==
    resp'.code \notin {0, 200} =>
        /\ resp' \in {HTTPException(404, "Session not found."),
                      HTTPException(400, "Session already completed.")}
        /\ UNCHANGED <<sessions, answers, tokens>>

C23_UnknownItemGraded == [][C23_Step /\ C23_Refusals]_vars

\* a wrong and a right answer for an unknown id are on record in the adaptive
\* stage above level 2 and in a later stage
C23_Witness ==
    \E r1, r2, r3 \in DOMAIN answers :
        /\ r1.question_id = UnknownId /\ r1.chosen_index = 1 /\ r1.is_correct = 0
        /\ r2.question_id = UnknownId /\ r2.stage = "adaptive"
        /\ r2.difficulty = 4 /\ r2.is_correct = 1
        /\ r3.question_id = UnknownId /\ r3.stage = "speed" /\ r3.difficulty = 2

\* the bank holds the id and the item has no difficulty field
NoDifficulty(qid) ==
    /\ QUESTION_BY_ID(qid) # <<>>
    /\ "difficulty" \notin DOMAIN QUESTION_BY_ID(qid)[1]

\* the difficulty of an item without the field, by stage and ability level
ContextDifficulty(stage, ability_level) ==
    IF stage = "adaptive" THEN ability_level ELSE 2

\* C24: for a catalog item that has no difficulty field the difficulty used
\* is the session's ability level in the adaptive stage and 2 in the classic
\* and speed stages, both in the item view served by a response and in the
\* answer record written when the item is graded.
C24_Step ==
    /\ \A id \in DOMAIN sessions :
          (Recorded(id) /\ NoDifficulty(NewRow.question_id)) =>
              NewRow.difficulty =
                  ContextDifficulty(sessions[id].stage, sessions[id].adaptive_level)
    /\ (resp' # resp /\ resp'.code = 200 /\ "question" \in DOMAIN resp'
          /\ NoDifficulty(resp'.question.id)) =>
              \E id \in DOMAIN sessions' :
                  /\ sessions'[id].stage = resp'.stage
                  /\ resp'.question.difficulty =
                        ContextDifficulty(resp'.stage, sessions'[id].adaptive_level)

C24_FallbackDifficulty == [][C24_Step]_vars

\* the fields of the responses of Start and Answer, and of their item view
ViewFields == {"id", "prompt", "choices", "time_limit_sec", "stage", "difficulty"}
ResponseFields ==
    {"code", "session_id", "stage", "stage_index", "question_index", "question",
     "finished", "result_locked"}

\* a response of Start or Answer (the ones with a question or a finished
\* field) holds no field beyond the listed ones, so no correct index and no
\* correctness flag, and its item view holds exactly the six
C25_Fields ==
    ("question" \in DOMAIN resp \/ "finished" \in DOMAIN resp) =>
        /\ DOMAIN resp \subseteq ResponseFields
        /\ "question" \in DOMAIN resp => DOMAIN resp.question = ViewFields

\* the response of this step could as well follow the other grading of the
\* submitted answer
SameEitherWay(id) ==
    \/ resp'.finished
    \/ LET other == AdaptiveUpdate(sessions[id].stage, sessions[id].adaptive_level,
                                   1 - NewRow.is_correct)
       IN  resp'.question \in
               {View(q, sessions'[id].stage) :
                    q \in pick_question(sessions'[id].stage, other)}

UsedIds(tbl, id) == {r.question_id : r \in DOMAIN RowsOf(tbl, id)}

\* the bank items that pass the stage's filter and are not among the used ids
EligibleUnused(stage, adaptive_level, used) ==
    {i \in DOMAIN QUESTION_BANK :
        /\ Eligible(QUESTION_BANK[i], stage, adaptive_level)
        /\ QUESTION_BANK[i].id \notin used}

\* C26: within one session the Selector takes the used item ids into
\* account: the item served after an answer is not one already answered in
\* the session while the catalog still holds an eligible item that has not
\* been answered in it.
C26_Step ==
    \A id \in DOMAIN sessions :
        (Recorded(id) /\ ~resp'.finished) =>
            LET used == UsedIds(answers', id)
                sess == sessions'[id]
            IN  EligibleUnused(sess.stage, sess.adaptive_level, used) # {}
                    => resp'.question.id \notin used

C26_NoRepeat == [][C26_Step]_vars

\* what the loop of compute_result adds to pts[stage] for the row r beyond
\* its weight, in units of 1/300 (0.2 is 60)
BonusOf(r) ==
    pts(SetToBag({r}), r.stage) - (IF r.is_correct = 1 THEN Weight(r.difficulty) ELSE 0)

\* C27: the time bonus added to the speed-stage points for a single correct
\* answer is between 0 and 0.2 for every integer time_spent the Answer
\* interface accepts, negative values and values above 30 included; wrong
\* answers and answers in other stages get no bonus.
C27_BonusRange ==
    \A r \in DOMAIN answers :
        /\ 0 <= BonusOf(r) /\ BonusOf(r) <= 60
        /\ (r.is_correct # 1 \/ r.stage # "speed") => BonusOf(r) = 0

\* C28: the session lifecycle is monotone: a completed session never
\* returns to in_progress, its stored iq and percentile never change after
\* completion (Unlock and Get Result leave them unchanged), and once
\* result_locked has become false it never becomes true again.
C28_Step ==
    \A id \in DOMAIN sessions :
        /\ sessions[id].status = "completed" =>
              /\ sessions'[id].status = "completed"
              /\ sessions'[id].final_iq = sessions[id].final_iq
              /\ sessions'[id].percentile = sessions[id].percentile
        /\ sessions[id].result_locked = 0 => sessions'[id].result_locked = 0

C28_Monotone == [][C28_Step]_vars

\* a response of Start: the one with a session id and a question
StartResponse(r) == r.code = 200 /\ "question" \in DOMAIN r /\ "session_id" \in DOMAIN r

\* the in-progress sessions of the user of session id, before the step
InProgressOf(user_id) ==
    {j \in DOMAIN sessions :
        sessions[j].user_id = user_id /\ sessions[j].status = "in_progress"}

\* C29: a Start call by a user who has an in-progress session returns that
\* session's id with its current stage, stage_index and question_index,
\* creates no new session, records no answer and leaves stage, stage_index,
\* question_index and ability_level unchanged, however often it is repeated.
C29_Step ==
    StartResponse(resp') =>
        LET sid == resp'.session_id
            user_id == sessions'[sid].user_id
        IN  InProgressOf(user_id) # {} =>
                /\ sid \in InProgressOf(user_id)
                /\ resp'.stage = sessions[sid].stage
                /\ resp'.stage_index = sessions[sid].stage_index
                /\ resp'.question_index = sessions[sid].question_index
                /\ resp'.question.stage = sessions[sid].stage
                /\ UNCHANGED <<sessions, answers, tokens>>

C29_StartResumes == [][C29_Step]_vars

\* Start has returned, unchanged, a session that is past its first item in
\* the classic stage at an ability level other than the initial one
C29_Witness ==
    /\ StartResponse(resp)
    /\ resp.stage = "classic" /\ resp.stage_index = 2 /\ resp.question_index > 1
    /\ sessions[resp.session_id].adaptive_level # 2
    /\ sessions[resp.session_id].question_index = resp.question_index

\* the sessions in progress of a user
InProgressNow(user_id) ==
    {j \in DOMAIN sessions :
        sessions[j].user_id = user_id /\ sessions[j].status = "in_progress"}

C30_AtMostOne == \A u \in Users : Cardinality(InProgressNow(u)) <= 1

\* a step that creates a session creates one, for a user who has none in
\* progress, at the initial position and without answers
C30_Step ==
    Len(sessions') # Len(sessions) =>
        LET new == sessions'[Len(sessions')]
        IN  /\ Len(sessions') = Len(sessions) + 1
            /\ InProgressNow(new.user_id) = {}
            /\ new.status = "in_progress"
            /\ new.stage = "adaptive" /\ new.stage_index = 1
            /\ new.question_index = 1 /\ new.adaptive_level = 2
            /\ new.result_locked = 1
            /\ RowsOf(answers', Len(sessions')) = EmptyBag
            /\ \A j \in DOMAIN sessions : sessions'[j] = sessions[j]

\* C30: in every reachable state each user has at most one session with
\* status in_progress: Start creates a new session only when the user has
\* none in progress, and a new session always begins at stage adaptive,
\* stage_index 1, question_index 1, ability_level 2, result_locked true,
\* with no answers.
C30_OneInProgress == []C30_AtMostOne /\ [][C30_Step]_vars

=============================================================================
